---- MODULE Spec2Model ----
(***************************************************************************)
(* Model of the arsenal command-line client (src/cli-src/index.ts, the     *)
(* first, defensive implementation, lines 1-462): the commands init, sync, *)
(* link and unlink acting on the configuration file, the pending-learning  *)
(* directory and the pre-push hook file, against a remote service whose    *)
(* answers are chosen nondeterministically at every call.                  *)
(***************************************************************************)
EXTENDS Integers, Sequences, FiniteSets, TLC

(* ------------------------------ bounds --------------------------------- *)
MaxIdLen == 2
MaxFiles == 2
NumRuns == 2

(* --------------------------- value universes --------------------------- *)
IdChars == {"1", "a"}
IdStrings == UNION {[1..n -> IdChars] : n \in 1..MaxIdLen}
UserIds == {1, 2}
Keys == {"k1"}
\* the keys POST /auth/generate-key may issue: the stored one or a new one
IssuedKeys == Keys \cup {"k2"}
Repos == {"r1"}
RemoteProjectIds == {0, 1, 10, 11}
NaN == -1

JsonNames == {<<i, "json">> : i \in 1..MaxFiles}
\* a file of the directory that is not a record (present whenever the
\* directory is)
OtherNames == {<<1, "txt">>}
FileNames == JsonNames \cup OtherNames
\* "bad" is text that JSON.parse rejects or that parses to null (either way
\* an exception is raised before any request is sent), "L1" is a learning object
Contents == {"bad", "L1"}
Runs == 1..NumRuns

(* ------------------------------ helpers -------------------------------- *)
DigitVal(c) == IF c = "1" THEN 1 ELSE NaN

RECURSIVE DigitPrefix(_, _, _)
\* value of the longest prefix of decimal digits of s from position i on,
\* acc is the value read so far (NaN when no digit has been read)
DigitPrefix(s, i, acc) ==
  IF i > Len(s) \/ DigitVal(s[i]) = NaN
  THEN acc
  ELSE DigitPrefix(s, i + 1, (IF acc = NaN THEN 0 ELSE acc) * 10 + DigitVal(s[i]))

\* JavaScript parseInt(s): the leading decimal digits, NaN when there is none
ParseInt(s) == DigitPrefix(s, 1, NaN)

\* JavaScript Number(s): the whole string must be a decimal numeral
NumberOf(s) ==
  IF \A i \in 1..Len(s) : DigitVal(s[i]) # NaN THEN DigitPrefix(s, 1, NaN) ELSE NaN

\* a !== b on numbers (NaN differs from everything, itself included)
StrictNotEqual(a, b) == a = NaN \/ b = NaN \/ a # b

\* mutant: the listing is not filtered on the suffix
EndsWithJson_Any(f) == TRUE

\* file.endsWith('.json')
EndsWithJson(f) == f[2] = "json"

\* all orders in which readdir may list the set S of names
Orderings(S) ==
  {s \in [1..Cardinality(S) -> S] : \A i, j \in 1..Cardinality(S) : s[i] = s[j] => i = j}

(* ------------------------- configuration file -------------------------- *)
\* kind "absent": no file; "malformed": text JSON.parse rejects; "ok": an object
ConfigRecords ==
  [kind : {"ok"}, projectId : IdStrings, apiKey : Keys, userId : UserIds,
   githubRepo : Repos \cup {"none"}]
BlankConfig(k) ==
  [kind |-> k, projectId |-> <<"a">>, apiKey |-> "k1", userId |-> 1, githubRepo |-> "none"]
ConfigFiles == ConfigRecords \cup {BlankConfig("absent"), BlankConfig("malformed")}

(* --------------------------- remote answers ---------------------------- *)
\* GET /auth/test-api-key: fetch rejects ("neterr"), non-2xx ("notok"),
\* or 2xx with {user: {user_id, project_id}}
ValidateResponses ==
  {[kind |-> k, user_id |-> 1, project_id |-> 0] : k \in {"neterr", "notok"}}
  \cup [kind : {"ok"}, user_id : UserIds, project_id : RemoteProjectIds]
NoResponse == [kind |-> "none", user_id |-> 1, project_id |-> 0]
SubmitResponses == {"ok", "notok", "neterr"}

VARIABLES
  config,      \* .arsenal/config.json
  learningsDir,\* whether .arsenal/learnings exists
  learnings,   \* file name -> content, "absent" when there is no such file
  hook,        \* whether .git/hooks/pre-push exists
  cmd,         \* the running init / link / unlink command and its locals
  sync,        \* the local variables of each sync invocation
  hist         \* per sync invocation: what it has received and done (history)

vars == <<config, learningsDir, learnings, hook, cmd, sync, hist>>

(* ------------------------------- Init ---------------------------------- *)
NoFiles == [f \in FileNames |-> "absent"]

\* name, pc, outcome and the locals cfg, projectId, userId, apiKey of the
\* command; the other fields are history: the remote calls made, each with
\* its result, whether execSync returned, whether the configuration was
\* read, and the files as the command found them
IdleCmd ==
  [name |-> "none", pc |-> "idle", outcome |-> "none", cfg |-> BlankConfig("absent"),
   projectId |-> <<"a">>, userId |-> 1, apiKey |-> "k1",
   calls |-> <<>>, execReturned |-> FALSE, configRead |-> FALSE, startHook |-> FALSE,
   startConfig |-> BlankConfig("absent"), startLearnings |-> NoFiles]

\* a command that starts, with the files as it finds them
StartCmd(n) ==
  [IdleCmd EXCEPT !.name = n, !.startHook = hook, !.startConfig = config,
                  !.startLearnings = learnings]

IdleRun ==
  [pc |-> "idle", outcome |-> "none", cfg |-> BlankConfig("absent"), files |-> <<>>,
   idx |-> 1, learning |-> "none", successCount |-> 0, errorCount |-> 0]

NoneOf(S) == [f \in S |-> "none"]
ZeroOf(S) == [f \in S |-> 0]

\* the history of an invocation that starts; prev is what the invocation
\* before it in the same slot received, inRow whether there was one
FreshHist(prev, inRow) ==
  [vresp |-> NoResponse, validateCalls |-> 0, enumerated |-> FALSE,
   resp |-> NoneOf(FileNames), tries |-> ZeroOf(FileNames), submits |-> ZeroOf(FileNames),
   startLearnings |-> NoFiles, startDir |-> FALSE, startConfig |-> BlankConfig("absent"),
   prevResp |-> prev.resp, prevOutcome |-> prev.outcome, inRow |-> inRow]

NoPrev == [resp |-> NoneOf(FileNames), outcome |-> "none"]

Init ==
  /\ config \in ConfigFiles
  /\ learningsDir \in BOOLEAN
  /\ learnings \in [FileNames -> Contents \cup {"absent"}]
  /\ learningsDir = FALSE => learnings = NoFiles
  /\ learnings[<<1, "txt">>] = (IF learningsDir THEN "bad" ELSE "absent")
  /\ hook \in BOOLEAN
  /\ cmd = IdleCmd
  /\ sync = [p \in Runs |-> IdleRun]
  /\ hist = [p \in Runs |-> FreshHist(NoPrev, FALSE)]

\* no command is running (a finished process counts as not running)
Finished(p) == sync[p].pc \in {"idle", "done"}
AllIdle == cmd.pc \in {"idle", "done"} /\ \A p \in Runs : Finished(p)

\* mutant: only the user id is compared
validateConfig_UserOnly(cfg, r) ==
  IF r.kind = "neterr" THEN "NetworkError"
  ELSE IF r.kind = "notok" THEN "InvalidApiKey"
  ELSE IF r.user_id # cfg.userId THEN "ConfigMismatch"
  ELSE "ok"

(* ------------------------- Config Validator ---------------------------- *)
\* validateConfig: the reason it throws for, or "ok" when it returns
validateConfig(cfg, r) ==
  IF r.kind = "neterr" THEN "NetworkError"
  ELSE IF r.kind = "notok" THEN "InvalidApiKey"
  ELSE IF r.user_id # cfg.userId \/ StrictNotEqual(r.project_id, ParseInt(cfg.projectId))
       THEN "ConfigMismatch"
       ELSE "ok"

(* ------------------------------- sync ---------------------------------- *)
SetRun(p, r) == sync' = [sync EXCEPT ![p] = r]
SetHist(p, h) == hist' = [hist EXCEPT ![p] = h]

\* the process starts: a finished slot is reused for the next invocation
SyncStart(p) ==
  /\ Finished(p)
  /\ SetRun(p, [IdleRun EXCEPT !.pc = "load"])
  /\ SetHist(p, [FreshHist([resp |-> hist[p].resp, outcome |-> sync[p].outcome],
                           sync[p].outcome # "none")
                   EXCEPT !.startLearnings = learnings, !.startDir = learningsDir,
                          !.startConfig = config])
  /\ cmd' = IF cmd.pc = "done" THEN IdleCmd ELSE cmd
  /\ UNCHANGED <<config, learningsDir, learnings, hook>>

\* read and parse config.json
SyncLoadConfig(p) ==
  /\ sync[p].pc = "load"
  /\ IF config.kind # "ok"
     THEN SetRun(p, [sync[p] EXCEPT !.pc = "done", !.outcome = "ConfigMissing"])
     ELSE SetRun(p, [sync[p] EXCEPT !.pc = "validate", !.cfg = config])
  /\ UNCHANGED <<config, learningsDir, learnings, hook, cmd, hist>>

\* mutant: the result of the validation is ignored
SyncValidate_Ignore(p) ==
  /\ sync[p].pc = "validate"
  /\ \E r \in ValidateResponses :
       /\ hist' = [hist EXCEPT ![p] = [hist[p] EXCEPT !.vresp = r, !.validateCalls = @ + 1]]
       /\ sync' = [sync EXCEPT ![p] = [sync[p] EXCEPT !.pc = "enumerate"]]
  /\ UNCHANGED <<config, learningsDir, learnings, hook, cmd>>

\* await validateConfig(config)
SyncValidate(p) ==
  /\ sync[p].pc = "validate"
  /\ \E r \in ValidateResponses :
       /\ SetHist(p, [hist[p] EXCEPT !.vresp = r, !.validateCalls = @ + 1])
       /\ IF validateConfig(sync[p].cfg, r) = "ok"
          THEN SetRun(p, [sync[p] EXCEPT !.pc = "enumerate"])
          ELSE SetRun(p, [sync[p] EXCEPT !.pc = "done",
                                         !.outcome = validateConfig(sync[p].cfg, r)])
  /\ UNCHANGED <<config, learningsDir, learnings, hook, cmd>>

\* mutant: only the first file of the listing is kept
SyncEnumerate_FirstOnly(p) ==
  /\ sync[p].pc = "enumerate"
  /\ IF ~learningsDir
     THEN /\ sync' = [sync EXCEPT ![p] = [sync[p] EXCEPT !.pc = "done", !.outcome = "NoDirectory"]]
          /\ UNCHANGED hist
     ELSE LET present == {f \in FileNames : learnings[f] # "absent" /\ EndsWithJson(f)} IN
          /\ hist' = [hist EXCEPT ![p] = [hist[p] EXCEPT !.enumerated = TRUE]]
          /\ IF present = {}
             THEN sync' = [sync EXCEPT ![p] = [sync[p] EXCEPT !.pc = "done", !.outcome = "NothingToSync"]]
             ELSE \E f \in present :
                    sync' = [sync EXCEPT ![p] = [sync[p] EXCEPT !.pc = "read", !.files = <<f>>, !.idx = 1]]
  /\ UNCHANGED <<config, learningsDir, learnings, hook, cmd>>

\* fs.access(learningsDir), then readdir filtered on the .json suffix
SyncEnumerate(p) ==
  /\ sync[p].pc = "enumerate"
  /\ IF ~learningsDir
     THEN /\ SetRun(p, [sync[p] EXCEPT !.pc = "done", !.outcome = "NoDirectory"])
          /\ UNCHANGED hist
     ELSE LET present == {f \in FileNames : learnings[f] # "absent" /\ EndsWithJson(f)} IN
          /\ SetHist(p, [hist[p] EXCEPT !.enumerated = TRUE])
          /\ IF present = {}
             THEN SetRun(p, [sync[p] EXCEPT !.pc = "done", !.outcome = "NothingToSync"])
             ELSE \E order \in Orderings(present) :
                    SetRun(p, [sync[p] EXCEPT !.pc = "read", !.files = order, !.idx = 1])
  /\ UNCHANGED <<config, learningsDir, learnings, hook, cmd>>

\* the end of one iteration of the for loop; after the last one the counts
\* are reported and the command returns
NextFile(r) ==
  IF r.idx + 1 > Len(r.files)
  THEN [r EXCEPT !.idx = @ + 1, !.learning = "none", !.pc = "done", !.outcome = "Completed"]
  ELSE [r EXCEPT !.idx = @ + 1, !.learning = "none", !.pc = "read"]

\* mutant: the first failure ends the loop (one try around the whole loop)
CountError_Abort(r) ==
  [r EXCEPT !.errorCount = @ + 1, !.learning = "none", !.pc = "done", !.outcome = "Completed"]

\* the catch block of the loop
CountError(r) == NextFile([r EXCEPT !.errorCount = @ + 1])
\* mutant: a synced record is counted as an error
CountSuccess_AsError(r) == NextFile([r EXCEPT !.errorCount = @ + 1])

\* the statements after await sendLearning
CountSuccess(r) == NextFile([r EXCEPT !.successCount = @ + 1])

\* mutant: a record that cannot be parsed is deleted
SyncReadFile_DropBad(p) ==
  /\ sync[p].pc = "read"
  /\ LET f == sync[p].files[sync[p].idx] IN
     /\ hist' = [hist EXCEPT ![p] = [hist[p] EXCEPT !.tries[f] = @ + 1]]
     /\ IF learnings[f] \in {"absent", "bad"}
        THEN /\ sync' = [sync EXCEPT ![p] = CountError(sync[p])]
             /\ learnings' = [learnings EXCEPT ![f] = "absent"]
        ELSE /\ sync' = [sync EXCEPT ![p] = [sync[p] EXCEPT !.pc = "submit", !.learning = learnings[f]]]
             /\ UNCHANGED learnings
  /\ UNCHANGED <<config, learningsDir, hook, cmd>>

\* readFile and JSON.parse of the current file; sendLearning reads the
\* fields of the parsed value before it calls fetch, which throws on null
SyncReadFile(p) ==
  /\ sync[p].pc = "read"
  /\ LET f == sync[p].files[sync[p].idx] IN
     /\ SetHist(p, [hist[p] EXCEPT !.tries[f] = @ + 1])
     /\ IF learnings[f] \in {"absent", "bad"}
        THEN SetRun(p, CountError(sync[p]))
        ELSE SetRun(p, [sync[p] EXCEPT !.pc = "submit", !.learning = learnings[f]])
  /\ UNCHANGED <<config, learningsDir, learnings, hook, cmd>>

\* mutant: the file is deleted whatever the answer
SyncSubmit_UnlinkAnyway(p) ==
  /\ sync[p].pc = "submit"
  /\ LET f == sync[p].files[sync[p].idx] IN
     \E r \in SubmitResponses :
       /\ hist' = [hist EXCEPT ![p] = [hist[p] EXCEPT !.resp[f] = r, !.submits[f] = @ + 1]]
       /\ sync' = [sync EXCEPT ![p] = [sync[p] EXCEPT !.pc = "unlink"]]
  /\ UNCHANGED <<config, learningsDir, learnings, hook, cmd>>

\* sendLearning: POST /projects/{projectId}/learnings
SyncSubmit(p) ==
  /\ sync[p].pc = "submit"
  /\ LET f == sync[p].files[sync[p].idx] IN
     \E r \in SubmitResponses :
       /\ SetHist(p, [hist[p] EXCEPT !.resp[f] = r, !.submits[f] = @ + 1])
       /\ IF r = "ok"
          THEN SetRun(p, [sync[p] EXCEPT !.pc = "unlink"])
          ELSE SetRun(p, CountError(sync[p]))
  /\ UNCHANGED <<config, learningsDir, learnings, hook, cmd>>

\* mutant: the record is counted as synced but its file is kept
SyncUnlink_KeepFile(p) ==
  /\ sync[p].pc = "unlink"
  /\ sync' = [sync EXCEPT ![p] = CountSuccess(sync[p])]
  /\ UNCHANGED <<config, learningsDir, learnings, hook, cmd, hist>>

\* mutant: a file that is already gone is not an error of the deletion
SyncUnlink_IgnoreMissing(p) ==
  /\ sync[p].pc = "unlink"
  /\ LET f == sync[p].files[sync[p].idx] IN
       learnings' = [learnings EXCEPT ![f] = "absent"]
  /\ sync' = [sync EXCEPT ![p] = CountSuccess(sync[p])]
  /\ UNCHANGED <<config, learningsDir, hook, cmd, hist>>

\* sendLearning: fs.unlink(filePath) after the 2xx answer
SyncUnlink(p) ==
  /\ sync[p].pc = "unlink"
  /\ LET f == sync[p].files[sync[p].idx] IN
     IF learnings[f] = "absent"
     THEN /\ SetRun(p, CountError(sync[p]))
          /\ UNCHANGED learnings
     ELSE /\ learnings' = [learnings EXCEPT ![f] = "absent"]
          /\ SetRun(p, CountSuccess(sync[p]))
  /\ UNCHANGED <<config, learningsDir, hook, cmd, hist>>

SyncStep(p) ==
  \/ SyncLoadConfig(p)
  \/ SyncValidate(p)
  \/ SyncEnumerate(p)
  \/ SyncReadFile(p)
  \/ SyncSubmit(p)
  \/ SyncUnlink(p)

\* a process-level interrupt (signal) ends the invocation wherever it is
SyncInterrupt(p) ==
  /\ ~Finished(p)
  /\ SetRun(p, [sync[p] EXCEPT !.pc = "done", !.outcome = "Interrupted"])
  /\ UNCHANGED <<config, learningsDir, learnings, hook, cmd, hist>>

(* ----------------------- init, link and unlink ------------------------- *)
\* a command starts in a fresh process: nothing is left of the sync
\* invocations that have finished
ForgetFinished ==
  /\ sync' = [p \in Runs |-> IF Finished(p) THEN IdleRun ELSE sync[p]]
  /\ hist' = [p \in Runs |-> IF Finished(p) THEN FreshHist(NoPrev, FALSE) ELSE hist[p]]

CmdIdle == cmd.pc \in {"idle", "done"}
SetCmd(c) == cmd' = c
EndCmd(o) == cmd' = [cmd EXCEPT !.pc = "done", !.outcome = o]

\* mutant: the result of the git command is not looked at
isGitRepo_Always(execThrows) == TRUE

\* isGitRepo: execSync of git rev-parse --is-inside-work-tree throws or not
isGitRepo(execThrows) == ~execThrows

\* the prompt of link accepts a non-blank answer that contains github.com
LinkAnswers == Repos

\* link up to its first await: the git check
LinkStart ==
  /\ CmdIdle
  /\ \E execThrows \in BOOLEAN :
       IF ~isGitRepo(execThrows)
       THEN SetCmd([StartCmd("link") EXCEPT !.pc = "done", !.outcome = "NotAGitRepo",
                                            !.execReturned = ~execThrows])
       ELSE SetCmd([StartCmd("link") EXCEPT !.pc = "load", !.execReturned = ~execThrows])
  /\ ForgetFinished
  /\ UNCHANGED <<config, learningsDir, learnings, hook>>

\* link: read and parse config.json
LinkLoadConfig ==
  /\ cmd.name = "link" /\ cmd.pc = "load"
  /\ IF config.kind # "ok"
     THEN EndCmd("ConfigMissing")
     ELSE SetCmd([cmd EXCEPT !.pc = "write", !.cfg = config, !.configRead = TRUE])
  /\ UNCHANGED <<config, learningsDir, learnings, hook, sync, hist>>

\* mutant: link writes a new configuration instead of amending the one read
LinkWriteConfig_Fresh ==
  /\ cmd.name = "link" /\ cmd.pc = "write"
  /\ \E repo \in LinkAnswers :
       config' = [BlankConfig("ok") EXCEPT !.githubRepo = repo]
  /\ cmd' = [cmd EXCEPT !.pc = "hook"]
  /\ UNCHANGED <<learningsDir, learnings, hook, sync, hist>>

\* link: the prompt, config.githubRepo = answer, write config.json
LinkWriteConfig ==
  /\ cmd.name = "link" /\ cmd.pc = "write"
  /\ \E repo \in LinkAnswers :
       config' = [cmd.cfg EXCEPT !.githubRepo = repo]
  /\ SetCmd([cmd EXCEPT !.pc = "hook"])
  /\ UNCHANGED <<learningsDir, learnings, hook, sync, hist>>

\* link: write .git/hooks/pre-push; the write may fail (no hooks directory)
LinkWriteHook ==
  /\ cmd.name = "link" /\ cmd.pc = "hook"
  /\ \E writeFails \in BOOLEAN :
       IF writeFails
       THEN EndCmd("HookInstallFailed") /\ UNCHANGED hook
       ELSE EndCmd("Linked") /\ hook' = TRUE
  /\ UNCHANGED <<config, learningsDir, learnings, sync, hist>>

UnlinkStart ==
  /\ CmdIdle
  /\ SetCmd([StartCmd("unlink") EXCEPT !.pc = "access"])
  /\ ForgetFinished
  /\ UNCHANGED <<config, learningsDir, learnings, hook>>

\* mutant: a missing hook is reported as a failure
UnlinkRemove_Strict ==
  /\ cmd.name = "unlink" /\ cmd.pc = "access"
  /\ IF hook
     THEN cmd' = [cmd EXCEPT !.pc = "done", !.outcome = "Removed"] /\ hook' = FALSE
     ELSE cmd' = [cmd EXCEPT !.pc = "done", !.outcome = "RemoveFailed"] /\ UNCHANGED hook
  /\ UNCHANGED <<config, learningsDir, learnings, sync, hist>>

\* unlink: fs.access then fs.unlink of the hook; either throwing means no hook
UnlinkRemove ==
  /\ cmd.name = "unlink" /\ cmd.pc = "access"
  /\ IF hook
     THEN EndCmd("Removed") /\ hook' = FALSE
     ELSE EndCmd("NothingToRemove") /\ UNCHANGED hook
  /\ UNCHANGED <<config, learningsDir, learnings, sync, hist>>

\* the prompt of init accepts a projectId whose Number() is a positive integer
InitAnswers == {s \in IdStrings : NumberOf(s) # NaN /\ NumberOf(s) > 0}

\* init: mkdir of .arsenal, then the prompts
InitStart ==
  /\ CmdIdle
  /\ \E mkdirFails \in BOOLEAN, answer \in InitAnswers :
       IF mkdirFails
       THEN SetCmd([StartCmd("init") EXCEPT !.pc = "done", !.outcome = "MkdirFailed"])
       ELSE SetCmd([StartCmd("init") EXCEPT !.pc = "login", !.projectId = answer])
  /\ ForgetFinished
  /\ UNCHANGED <<config, learningsDir, learnings, hook>>

\* the command after a remote call with result res
Called(c, endpoint, res) == [c EXCEPT !.calls = Append(@, <<endpoint, res>>)]
Ended(c, o) == [c EXCEPT !.pc = "done", !.outcome = o]

\* init: POST /auth/login
InitLogin ==
  /\ cmd.name = "init" /\ cmd.pc = "login"
  /\ \/ SetCmd(Ended(Called(cmd, "login", "neterr"), "InitFailed"))
     \/ SetCmd(Ended(Called(cmd, "login", "notok"), "AuthFailed"))
     \/ \E u \in UserIds :
          SetCmd([Called(cmd, "login", "ok") EXCEPT !.pc = "verify", !.userId = u])
  /\ UNCHANGED <<config, learningsDir, learnings, hook, sync, hist>>

\* mutant: a project that is not owned does not stop init
InitVerify_Ignore ==
  /\ cmd.name = "init" /\ cmd.pc = "verify"
  /\ \/ cmd' = Ended(Called(cmd, "verify", "neterr"), "InitFailed")
     \/ cmd' = [Called(cmd, "verify", "notok") EXCEPT !.pc = "key"]
     \/ cmd' = [Called(cmd, "verify", "ok") EXCEPT !.pc = "key"]
  /\ UNCHANGED <<config, learningsDir, learnings, hook, sync, hist>>

\* init: GET /projects/{projectId}
InitVerify ==
  /\ cmd.name = "init" /\ cmd.pc = "verify"
  /\ \/ SetCmd(Ended(Called(cmd, "verify", "neterr"), "InitFailed"))
     \/ SetCmd(Ended(Called(cmd, "verify", "notok"), "ProjectNotOwned"))
     \/ SetCmd([Called(cmd, "verify", "ok") EXCEPT !.pc = "key"])
  /\ UNCHANGED <<config, learningsDir, learnings, hook, sync, hist>>

\* generateApiKey: the reason it throws for, or the issued key
generateApiKey(r) == IF r \in IssuedKeys THEN r ELSE "throws"

\* init: await generateApiKey(...)
InitGenerateKey ==
  /\ cmd.name = "init" /\ cmd.pc = "key"
  /\ \E r \in IssuedKeys \cup {"notok", "neterr"} :
       IF generateApiKey(r) = "throws"
       THEN SetCmd(Ended(Called(cmd, "key", r), "KeyIssuanceFailed"))
       ELSE SetCmd([Called(cmd, "key", "ok") EXCEPT !.pc = "write",
                                                    !.apiKey = generateApiKey(r)])
  /\ UNCHANGED <<config, learningsDir, learnings, hook, sync, hist>>

\* init: write config.json
InitWrite ==
  /\ cmd.name = "init" /\ cmd.pc = "write"
  /\ config' = [kind |-> "ok", projectId |-> cmd.projectId, apiKey |-> cmd.apiKey,
                userId |-> cmd.userId, githubRepo |-> "none"]
  /\ EndCmd("Initialized")
  /\ UNCHANGED <<learningsDir, learnings, hook, sync, hist>>

(* --------------------------- specification ----------------------------- *)
\* one command at a time: a single user at one terminal
Next ==
  \/ AllIdle /\ SyncStart(1)
  \/ SyncStep(1)
  \/ AllIdle /\ InitStart
  \/ InitLogin
  \/ InitVerify
  \/ InitGenerateKey
  \/ InitWrite
  \/ AllIdle /\ LinkStart
  \/ LinkLoadConfig
  \/ LinkWriteConfig
  \/ LinkWriteHook
  \/ AllIdle /\ UnlinkStart
  \/ UnlinkRemove

Spec == Init /\ [][Next]_vars

\* sync runs one after the other, each of which may be interrupted
NextInt ==
  \/ AllIdle /\ SyncStart(1)
  \/ SyncStep(1)
  \/ SyncInterrupt(1)

SpecInt == Init /\ [][NextInt]_vars

\* sync re-run again and again by hand, no other command in between: every
\* run goes on to its end, a run follows the one that ended, and the remote
\* does not refuse for ever what it is able to accept (the validation of the
\* stored configuration, the submission of each record)
InitRetry == Init /\ ~hook /\ config.githubRepo = "none"

NextRetry ==
  \/ AllIdle /\ SyncStart(1)
  \/ SyncStep(1)

ValidateAccepts == SyncValidate(1) /\ sync'[1].pc = "enumerate"
SubmitAccepts(f) ==
  SyncSubmit(1) /\ sync[1].files[sync[1].idx] = f /\ hist'[1].resp[f] = "ok"

SpecRetry ==
  /\ InitRetry /\ [][NextRetry]_vars
  /\ WF_vars(AllIdle /\ SyncStart(1))
  /\ WF_vars(SyncStep(1))
  /\ SF_vars(ValidateAccepts)
  /\ \A f \in JsonNames : SF_vars(SubmitAccepts(f))

\* two sync invocations started once each over the same directory, with a
\* configuration the remote can validate; their steps interleave freely
ConcRuns == {1, 2}

InitConc ==
  /\ Init /\ ~hook /\ learningsDir
  /\ config = [BlankConfig("ok") EXCEPT !.projectId = <<"1">>]

NextConc ==
  \E p \in ConcRuns :
    \/ sync[p].pc = "idle" /\ SyncStart(p)
    \/ SyncStep(p)

SpecConc == InitConc /\ [][NextConc]_vars

(* ------------------------------ properties ----------------------------- *)
\* the names a sync invocation enumerated
Enumerated(p) == {sync[p].files[i] : i \in 1..Len(sync[p].files)}
NoSubmission(p) == \A f \in FileNames : hist[p].submits[f] = 0
\* the files this invocation has removed from pending storage
Removed(p) == {f \in FileNames : hist[p].startLearnings[f] # "absent" /\ learnings[f] = "absent"}
Failure == {"notok", "neterr"}
\* the validation answer received is a 2xx whose pair equals the stored pair
ValidationPassed(p) ==
  /\ hist[p].vresp.kind = "ok"
  /\ hist[p].vresp.user_id = sync[p].cfg.userId
  /\ hist[p].vresp.project_id = ParseInt(sync[p].cfg.projectId)
AbortedValidation == {"InvalidApiKey", "NetworkError", "ConfigMismatch"}

\* C1: whenever the validation endpoint answered with a userId/projectId pair
\* that differs from the stored pair (the stored projectId read with parseInt),
\* the sync run has ended with ConfigMismatch, has made no submission call and
\* has deleted no pending record.
C1_MismatchAborts ==
  \A p \in Runs :
    (/\ hist[p].vresp.kind = "ok"
     /\ \/ hist[p].vresp.user_id # config.userId
        \/ hist[p].vresp.project_id # ParseInt(config.projectId))
    => /\ sync[p].pc = "done"
       /\ sync[p].outcome = "ConfigMismatch"
       /\ NoSubmission(p)
       /\ ~hist[p].enumerated
       /\ learnings = hist[p].startLearnings

\* a run ended on a mismatch of the projectId alone while a well-formed
\* record was waiting
C1_Witness ==
  /\ sync[1].pc = "done" /\ sync[1].outcome = "ConfigMismatch"
  /\ hist[1].vresp.kind = "ok"
  /\ hist[1].vresp.user_id = config.userId
  /\ hist[1].vresp.project_id # ParseInt(config.projectId)
  /\ ParseInt(config.projectId) # NaN
  /\ learningsDir /\ learnings[<<1, "json">>] = "L1"

\* C2: when a sync run has finished, every record whose submission got a
\* success answer is absent from pending storage and every record whose
\* submission got a failure answer is still there with the content it had.
C2_SuccessRemovedFailureKept ==
  \A p \in Runs : sync[p].pc = "done" =>
    \A f \in FileNames :
      /\ hist[p].resp[f] = "ok" => learnings[f] = "absent"
      /\ hist[p].resp[f] \in Failure =>
           learnings[f] # "absent" /\ learnings[f] = hist[p].startLearnings[f]

\* a finished run in which one record was accepted and another was refused
C2_Witness ==
  /\ sync[1].pc = "done"
  /\ hist[1].resp[<<1, "json">>] = "ok" /\ learnings[<<1, "json">>] = "absent"
  /\ hist[1].resp[<<2, "json">>] = "notok" /\ learnings[<<2, "json">>] = "L1"

\* C3 as stated: with N records enumerated and k of them refused by the
\* remote with a non-2xx answer, the run ends with N-k successes, k failures
\* and N-k files removed.
C3_Original ==
  \A p \in Runs : (sync[p].pc = "done" /\ sync[p].outcome = "Completed") =>
    LET N == Len(sync[p].files)
        k == Cardinality({f \in Enumerated(p) : hist[p].resp[f] = "notok"})
    IN /\ sync[p].successCount = N - k
       /\ sync[p].errorCount = k
       /\ Cardinality(Removed(p)) = N - k

\* C3 amended: with N records enumerated, of which b cannot be parsed and k
\* of the others get no success answer to their submission (non-2xx or no
\* answer at all), the run ends with N-k-b successes, k+b failures and
\* exactly N-k-b files removed.
C3_Counts ==
  \A p \in Runs : (sync[p].pc = "done" /\ sync[p].outcome = "Completed") =>
    LET N == Len(sync[p].files)
        k == Cardinality({f \in Enumerated(p) : hist[p].resp[f] \in Failure})
        b == Cardinality({f \in Enumerated(p) : hist[p].startLearnings[f] = "bad"})
    IN /\ sync[p].successCount = N - k - b
       /\ sync[p].errorCount = k + b
       /\ Cardinality(Removed(p)) = N - k - b

\* a run over two records, one accepted and one refused
C3_Witness ==
  /\ sync[1].pc = "done" /\ sync[1].outcome = "Completed"
  /\ Len(sync[1].files) = 2
  /\ sync[1].successCount = 1 /\ sync[1].errorCount = 1
  /\ \E f \in Enumerated(1) : hist[1].resp[f] = "notok"

\* C4: a sync run that found the pending directory absent or without any
\* record never enters the record loop: it makes no submission call, counts
\* no success and no failure, and once validation has passed it ends
\* reporting that there is nothing to sync.
C4_NothingToSync ==
  \A p \in Runs :
    (/\ sync[p].pc # "idle"
     /\ \/ ~hist[p].startDir
        \/ \A f \in JsonNames : hist[p].startLearnings[f] = "absent")
    => /\ NoSubmission(p)
       /\ sync[p].successCount = 0 /\ sync[p].errorCount = 0
       /\ sync[p].pc \in {"load", "validate", "enumerate", "done"}
       /\ (sync[p].pc = "done" /\ ValidationPassed(p)) =>
            sync[p].outcome = (IF hist[p].startDir THEN "NothingToSync" ELSE "NoDirectory")

\* a validated run that found the directory holding only a file that is not
\* a record
C4_Witness ==
  /\ sync[1].pc = "done" /\ sync[1].outcome = "NothingToSync"
  /\ ValidationPassed(1)
  /\ learnings[<<1, "txt">>] # "absent"

\* the remote behaved in this run as in the run before it: every answer to a
\* submission is the answer the same record got then
SameRemote(p) ==
  \A f \in FileNames : hist[p].resp[f] # "none" => hist[p].resp[f] = hist[p].prevResp[f]
PassedOutcomes == {"Completed", "NothingToSync", "NoDirectory"}
SecondRun(p) ==
  /\ sync[p].pc = "done" /\ hist[p].inRow
  /\ hist[p].prevOutcome \in PassedOutcomes /\ sync[p].outcome \in PassedOutcomes
  /\ SameRemote(p)

\* C5 as stated: the second of two sync runs in a row, under the same remote
\* behaviour, leaves storage and configuration as the first left them and
\* reports that there is nothing to sync, making no submission call.
C5_Original ==
  \A p \in Runs : SecondRun(p) =>
    /\ learnings = hist[p].startLearnings
    /\ config = hist[p].startConfig
    /\ sync[p].outcome \in {"NothingToSync", "NoDirectory"}
    /\ NoSubmission(p)

\* C5 amended: the second of two sync runs in a row, under the same remote
\* behaviour, leaves storage and configuration as the first left them; it
\* reports that there is nothing to sync exactly when the first run left no
\* record behind, and otherwise it attempts again each record the first run
\* left, submitting only records whose submission failed in the first run.
C5_SecondRunChangesNothing ==
  \A p \in Runs : SecondRun(p) =>
    /\ learnings = hist[p].startLearnings
    /\ config = hist[p].startConfig
    /\ sync[p].outcome \in {"NothingToSync", "NoDirectory"}
         <=> (\A f \in JsonNames : hist[p].startLearnings[f] = "absent")
    /\ \A f \in FileNames :
         /\ (f \in JsonNames /\ hist[p].startLearnings[f] # "absent") => hist[p].tries[f] = 1
         /\ hist[p].submits[f] > 0 => hist[p].prevResp[f] \in Failure

\* a second run that submitted again a record refused in the first run
C5_Witness ==
  /\ SecondRun(1)
  /\ hist[1].prevResp[<<1, "json">>] = "notok"
  /\ hist[1].resp[<<1, "json">>] = "notok"
  /\ learnings[<<1, "json">>] = "L1"

\* C6: in a sync run that passed validation every enumerated record is
\* attempted exactly once whatever happened to the records before it: no
\* record is attempted twice, every record before the current one has been
\* attempted, and the run ends only in its completed state, with every
\* record attempted and counted.
C6_EveryRecordAttemptedOnce ==
  \A p \in Runs : Len(sync[p].files) > 0 =>
    /\ \A f \in FileNames : hist[p].tries[f] <= 1
    /\ \A i \in 1..Len(sync[p].files) :
         i < sync[p].idx => hist[p].tries[sync[p].files[i]] = 1
    /\ sync[p].pc = "done" =>
         /\ sync[p].outcome = "Completed"
         /\ \A f \in Enumerated(p) : hist[p].tries[f] = 1
         /\ sync[p].successCount + sync[p].errorCount = Len(sync[p].files)

\* a completed run over two records in which both failed, the first one
\* included
C6_Witness ==
  /\ sync[1].pc = "done" /\ sync[1].outcome = "Completed"
  /\ Len(sync[1].files) = 2 /\ sync[1].errorCount = 2
  /\ \E f \in Enumerated(1) : hist[1].resp[f] = "notok"
  /\ \E f \in Enumerated(1) : hist[1].startLearnings[f] = "bad"
  /\ \A f \in Enumerated(1) : hist[1].tries[f] = 1

\* C7: a sync run enumerates, submits or deletes only after it loaded the
\* configuration and validation passed; a missing or malformed configuration
\* ends the run with no call to the validation or submission endpoint; a
\* failed validation ends the run with nothing enumerated, submitted or
\* deleted, and storage and configuration as they were.
C7_LoadAndValidateFirst ==
  \A p \in Runs :
    /\ (\/ ~NoSubmission(p)
        \/ hist[p].enumerated
        \/ sync[p].pc \in {"enumerate", "read", "submit", "unlink"}
        \/ Removed(p) # {})
       => /\ hist[p].startConfig.kind = "ok"
          /\ sync[p].cfg = hist[p].startConfig
          /\ hist[p].validateCalls = 1
          /\ ValidationPassed(p)
    /\ (sync[p].pc # "idle" /\ hist[p].startConfig.kind # "ok")
       => /\ sync[p].pc \in {"load", "done"}
          /\ sync[p].pc = "done" => sync[p].outcome = "ConfigMissing"
          /\ hist[p].validateCalls = 0
          /\ NoSubmission(p)
    /\ (hist[p].validateCalls > 0 /\ ~ValidationPassed(p))
       => /\ sync[p].pc = "done"
          /\ sync[p].outcome \in AbortedValidation
          /\ ~hist[p].enumerated
          /\ NoSubmission(p)
          /\ learnings = hist[p].startLearnings
          /\ config = hist[p].startConfig

\* a run stopped by a refused API key while a well-formed record was waiting
C7_Witness ==
  /\ sync[1].pc = "done" /\ sync[1].outcome = "InvalidApiKey"
  /\ hist[1].vresp.kind = "notok"
  /\ learningsDir /\ learnings[<<1, "json">>] = "L1"

C9_Unlink ==
  cmd.name = "unlink" =>
    /\ config = cmd.startConfig
    /\ learnings = cmd.startLearnings
    /\ cmd.pc = "done" =>
         /\ ~hook
         /\ cmd.outcome = (IF cmd.startHook THEN "Removed" ELSE "NothingToRemove")

\* unlink finished without a hook to remove, next to a configuration and a
\* pending record
C9_Witness ==
  /\ cmd.name = "unlink" /\ cmd.pc = "done" /\ ~cmd.startHook
  /\ cmd.outcome = "NothingToRemove"
  /\ config.kind = "ok" /\ learnings[<<1, "json">>] = "L1"

\* C10: no step of sync, link or unlink changes the userId, projectId or
\* apiKey of an existing configuration or deletes it: the only steps that
\* write the configuration are the final write of init and the write of
\* link, and link's write changes the githubRepo field only.
C10_ConfigIdentityKept ==
  [][ config' # config =>
        \/ cmd.name = "init" /\ cmd.pc = "write"
        \/ /\ cmd.name = "link" /\ cmd.pc = "write"
           /\ config.kind = "ok"
           /\ config' = [config EXCEPT !.githubRepo = config'.githubRepo] ]_vars

\* link has amended a configuration that holds the second user
C10_Witness ==
  /\ cmd.name = "link" /\ cmd.outcome = "Linked"
  /\ cmd.startConfig.kind = "ok" /\ cmd.startConfig.githubRepo = "none"
  /\ config = [cmd.startConfig EXCEPT !.githubRepo = "r1"]
  /\ config.userId = 2 /\ ParseInt(config.projectId) = 11

\* C11: no pending record is lost, whether runs complete or are interrupted
\* at any step: a record that was pending when a run started is still there
\* with its content, or is gone and the remote answered its submission with
\* success in that run; and a record file changes only by being deleted by
\* the run that is at its unlink step for that record, after it received the
\* success answer for that same record.
C11_NoRecordLost ==
  /\ [](\A p \in Runs : \A f \in FileNames :
         (sync[p].pc # "idle" /\ hist[p].startLearnings[f] # "absent") =>
           \/ learnings[f] = hist[p].startLearnings[f]
           \/ learnings[f] = "absent" /\ \E q \in Runs : hist[q].resp[f] = "ok")
  /\ [][\A f \in FileNames : learnings'[f] # learnings[f] =>
          /\ learnings'[f] = "absent"
          /\ \E p \in Runs :
               /\ sync[p].pc = "unlink"
               /\ sync[p].files[sync[p].idx] = f
               /\ hist[p].resp[f] = "ok"
               /\ hist[p].submits[f] = 1]_vars

\* a run interrupted between the success answer for one record and the
\* deletion of its file, after it had synced and deleted another record
C11_Witness ==
  /\ sync[1].pc = "done" /\ sync[1].outcome = "Interrupted"
  /\ \E f, g \in JsonNames :
       /\ f # g
       /\ hist[1].resp[f] = "ok" /\ learnings[f] = "L1"
       /\ hist[1].resp[g] = "ok" /\ learnings[g] = "absent"

\* the remote can validate the stored configuration
ValidConfig ==
  config.kind = "ok" /\ \E r \in ValidateResponses : validateConfig(config, r) = "ok"

\* C12: a record whose processing failed in one completed sync run is still
\* pending, and the next run, once past validation, enumerates it and
\* attempts it again; and when sync is re-run again and again with a
\* configuration the remote validates, against a remote that does not refuse
\* a well-formed record for ever, every parseable pending record is
\* eventually removed from pending storage.
C12_RetryDrains ==
  /\ [](\A p \in Runs :
         (hist[p].inRow /\ hist[p].prevOutcome = "Completed") =>
           \A f \in JsonNames :
             /\ hist[p].prevResp[f] \in Failure => hist[p].startLearnings[f] = "L1"
             /\ (hist[p].startLearnings[f] # "absent" /\ sync[p].files # <<>>) =>
                  f \in Enumerated(p)
             /\ (hist[p].startLearnings[f] # "absent" /\ sync[p].outcome = "Completed") =>
                  hist[p].tries[f] = 1)
  /\ (ValidConfig ~> (\A f \in JsonNames : learnings[f] # "L1"))

\* a record refused in one run has been accepted and removed in the next
C12_Witness ==
  /\ sync[1].pc = "done" /\ sync[1].outcome = "Completed" /\ hist[1].inRow
  /\ \E f \in JsonNames :
       /\ hist[1].prevResp[f] = "notok"
       /\ hist[1].resp[f] = "ok"
       /\ learnings[f] = "absent"
  /\ \A f \in JsonNames : learnings[f] # "L1"

\* the files removed since the earliest of the invocations started
RemovedByAll ==
  {f \in FileNames :
     learnings[f] = "absent" /\ \E p \in ConcRuns : hist[p].startLearnings[f] # "absent"}
SucceededSum == sync[1].successCount + sync[2].successCount
\* the submissions the remote has answered with success
AcceptedSum ==
  Cardinality({f \in FileNames : hist[1].resp[f] = "ok"})
  + Cardinality({f \in FileNames : hist[2].resp[f] = "ok"})
AcceptedTwice == {f \in FileNames : hist[1].resp[f] = "ok" /\ hist[2].resp[f] = "ok"}
BothDone == \A p \in ConcRuns : sync[p].pc = "done"

\* C13 as stated: when two concurrent runs have both submitted the same
\* record and the remote accepted it from both, so that one run counted it
\* as failed, the sum of the two succeeded counts differs from the number of
\* files removed.
C13_Original ==
  (BothDone /\ AcceptedTwice # {}) => SucceededSum # Cardinality(RemovedByAll)

\* C13 amended: nothing keeps two concurrent runs from submitting the same
\* record; when the remote accepted a record from both, one run deleted its
\* file and counted it, the other counted it as failed. The sum of the two
\* succeeded counts always equals the number of files removed; what it
\* falls short of, by the number of records accepted twice, is the number
\* of submissions the remote accepted.
C13_RaceCounts ==
  /\ SucceededSum = Cardinality(RemovedByAll)
  /\ BothDone =>
       /\ AcceptedSum = SucceededSum + Cardinality(AcceptedTwice)
       /\ \A f \in AcceptedTwice : learnings[f] = "absent"
       /\ sync[1].errorCount + sync[2].errorCount >= Cardinality(AcceptedTwice)

\* both runs submitted the only record, the remote accepted it twice, the
\* first run deleted it and the second counted it as failed
C13_Witness ==
  /\ BothDone
  /\ \E f \in JsonNames :
       /\ \A g \in JsonNames : hist[1].startLearnings[g] # "absent" <=> g = f
       /\ hist[1].submits[f] = 1 /\ hist[2].submits[f] = 1
       /\ f \in AcceptedTwice
       /\ learnings[f] = "absent"
  /\ sync[1].successCount = 1 /\ sync[1].errorCount = 0
  /\ sync[2].successCount = 0 /\ sync[2].errorCount = 1

InitCallOrder == <<"login", "verify", "key">>
AllSucceeded(calls) ==
  /\ Len(calls) = 3
  /\ \A i \in 1..3 : calls[i] = <<InitCallOrder[i], "ok">>

\* C14: init calls login, project verification and key issuance in that
\* order, each only after the ones before it succeeded; a call that fails
\* is the last one made and leaves the configuration file as it was; the
\* configuration is written only after all three succeeded, and it then
\* holds exactly the entered projectId, the issued apiKey and the userId
\* that login returned.
C14_InitOrder ==
  cmd.name = "init" =>
    /\ Len(cmd.calls) <= 3
    /\ \A i \in 1..Len(cmd.calls) :
         /\ cmd.calls[i][1] = InitCallOrder[i]
         /\ i < Len(cmd.calls) => cmd.calls[i][2] = "ok"
         /\ cmd.calls[i][2] # "ok" => cmd.pc = "done" /\ cmd.outcome # "Initialized"
    /\ cmd.pc = "write" => AllSucceeded(cmd.calls)
    /\ cmd.outcome # "Initialized" => config = cmd.startConfig
    /\ cmd.outcome = "Initialized" =>
         /\ AllSucceeded(cmd.calls)
         /\ config = [kind |-> "ok", projectId |-> cmd.projectId, apiKey |-> cmd.apiKey,
                      userId |-> cmd.userId, githubRepo |-> "none"]

\* init has replaced a linked configuration of the first user by one that
\* holds the entered projectId 11, the newly issued key and the second user
C14_Witness ==
  /\ cmd.name = "init" /\ cmd.outcome = "Initialized"
  /\ cmd.startConfig.kind = "ok" /\ cmd.startConfig.githubRepo = "r1"
  /\ cmd.startConfig.userId = 1
  /\ cmd.projectId = <<"1", "1">> /\ cmd.apiKey = "k2" /\ cmd.userId = 2
  /\ config.projectId = <<"1", "1">> /\ config.apiKey = "k2" /\ config.userId = 2

====
